---- MODULE Spec2Model ----
(***************************************************************************)
(* A model of tensor2tensor/envs/env_problem.py: EnvProblem, a pool of     *)
(* gym environments stepped in lock-step whose interaction history is      *)
(* kept in a BatchTrajectory and exported to sharded files.                *)
(*                                                                         *)
(* Conventions.                                                            *)
(*  - A Python value that may be None is a sequence: <<>> is None and      *)
(*    <<v>> is the value v.                                                *)
(*  - Indices handed to the API (slot indices, shard positions, time-step  *)
(*    ordinals) are 0-based as in Python; At(s, i) reads s[i].             *)
(*  - A reward (a float) is an integer number of quarters: 5 is 1.25.      *)
(*    inf is a number above every finite reward of the model.              *)
(*  - self._envs is a sequence; <<>> is None (the code only ever tests     *)
(*    `self._envs` for truth, which None and [] fail alike).               *)
(***************************************************************************)
EXTENDS Integers, Sequences, FiniteSets, TLC

\* ------------------------------------------------------------------ bounds

\* Largest pool size initialize_environments is called with.
MaxBatch == 2

\* The budget of one run of the full specification: every API call costs one
\* unit, and one more per environment method (env.reset, env.step) it invokes.
MaxWork == 9

\* Largest magnitude, in whole reward units, of a bound of the reward range.
MaxReward == 2

\* Longest completed-trajectory list built by the sharding specification.
MaxCompleted == 12

\* num_shards: DatasetSplit.TRAIN and DatasetSplit.EVAL.
TrainShards == 10
EvalShards == 1

\* ------------------------------------------------------------- Python values

None == <<>>
Some(v) == <<v>>
At(s, i) == s[i + 1]
Range0(n) == [k \in 1..n |-> k - 1]

Min2(a, b) == IF a < b THEN a ELSE b
Max2(a, b) == IF a > b THEN a ELSE b

\* Python truth of an optional number: None and 0 are false.
Truthy(x) == x # None /\ x[1] # 0

\* float n as a number of quarters.
Float(n) == 4 * n

\* np.inf: above every finite reward the model draws.
inf == Float(MaxReward + 2)

\* ------------------------------------------------------------------- inputs

\* Raw observations an environment emits.
Obs == {0, 1}

\* Discrete(2): the action space of the base environment.
ActionSpace == {0, 1}

\* What one env.step(action) returns: observation, raw reward (quarters),
\* done and info.
Outcomes ==
  { [observation |-> 1, reward |-> 5,  done |-> FALSE, info |-> 0],
    [observation |-> 1, reward |-> 2,  done |-> FALSE, info |-> 1],
    [observation |-> 0, reward |-> -6, done |-> TRUE,  info |-> 2] }

\* Raw rewards handed to process_rewards directly: every quarter from below
\* the smallest bound to above the largest.
RawRewards == (-Float(MaxReward + 1))..Float(MaxReward + 1)

\* Finite bounds of a reward range, in quarters.
FiniteBounds == (-Float(MaxReward))..Float(MaxReward)

\* Reward ranges an EnvProblem is constructed with.
\* (min <= max, with a finite reward between them).
RewardRanges ==
  { r \in (FiniteBounds \cup {-inf}) \X (FiniteBounds \cup {inf}) : r[1] <= r[2] }

\* The ranges the full specification runs with: the default and [-1, 1].
MainRewardRanges == { <<-inf, inf>>, <<Float(-1), Float(1)>> }

VARIABLES
  overridden,     \* whether the object's class overrides process_observations
  observation_space,  \* self._observation_space: None or <<space>>
  action_space,   \* self._action_space: None or <<space>>
  reward_range,   \* self._reward_range: <<min, max>>
  batch_size,     \* self._batch_size: None or <<n>>
  envs,           \* self._envs: <<>> (None) or one entry per environment,
                  \*   the environment's current raw observation (None: fresh)
  trajectories,   \* self._trajectories: None or <<BatchTrajectory>>
  files,          \* the shard files written by generate_data, or None
  ret,            \* the last API call: [op, raised, args, value]
  env_calls,      \* the environment methods the last API call invoked, in order
  work            \* the budget the calls made so far have cost

vars == <<overridden, observation_space, action_space, reward_range, batch_size, envs, trajectories, files, ret, env_calls, work>>

\* ------------------------------------------------- trajectory.py (the store)

\* A TimeStep: the first of a trajectory has no rewards, the last no action.
TimeStep(observation, action, raw_reward, processed_reward, done) ==
  [observation |-> observation, action |-> action, raw_reward |-> raw_reward,
   processed_reward |-> processed_reward, done |-> done]

\* A Trajectory is its ordered time-steps; Trajectory() holds none.
Trajectory == <<>>

num_time_steps(t) == Len(t)

\* A trajectory is active once it holds a time-step.
is_active(t) == num_time_steps(t) > 0

last_time_step(t) == t[Len(t)]

add_time_step(t, ts) == Append(t, ts)

change_last_time_step(t, action) == [t EXCEPT ![Len(t)].action = action]

\* BatchTrajectory(batch_size): one empty Trajectory per slot, none completed.
BatchTrajectory(n) ==
  [batch_size |-> n,
   trajectories |-> [i \in 1..n |-> Trajectory],
   completed_trajectories |-> <<>>]

\* BatchTrajectory.reset(indices, observations), from indices[k] on: the
\* trajectory in progress at the slot is closed out (appended to the completed
\* list) and a new one is started with the initial observation.
RECURSIVE BatchTrajectory_reset_from(_, _, _, _)
BatchTrajectory_reset_from(bt, indices, observations, k) ==
  IF k > Len(indices) THEN bt
  ELSE
    LET index == indices[k]
        t == At(bt.trajectories, index)
        closed == IF is_active(t)
                    THEN Append(bt.completed_trajectories, t)
                    ELSE bt.completed_trajectories
        fresh == add_time_step(Trajectory,
                   TimeStep(observations[k], None, None, None, FALSE))
    IN BatchTrajectory_reset_from(
         [bt EXCEPT !.trajectories[index + 1] = fresh,
                    !.completed_trajectories = closed],
         indices, observations, k + 1)

BatchTrajectory_reset(bt, indices, observations) ==
  BatchTrajectory_reset_from(bt, indices, observations, 1)

\* BatchTrajectory.step: every active slot gets the action on its last
\* time-step and one new time-step; a done slot stays where it is until the
\* next reset of its index.
BatchTrajectory_step(bt, observations, raw_rewards, processed_rewards, dones, actions) ==
  [bt EXCEPT !.trajectories =
     [i \in 1..bt.batch_size |->
        LET t == bt.trajectories[i] IN
        IF is_active(t)
          THEN add_time_step(
                 change_last_time_step(t, Some(actions[i])),
                 TimeStep(observations[i], None, Some(raw_rewards[i]),
                          Some(processed_rewards[i]), dones[i]))
          ELSE t]]

\* BatchTrajectory.complete_all_trajectories: every still-active trajectory,
\* done or not, is closed out, in slot order.
complete_all_trajectories(bt) ==
  [bt EXCEPT
     !.completed_trajectories = @ \o SelectSeq(bt.trajectories, is_active),
     !.trajectories = [i \in 1..bt.batch_size |-> Trajectory]]

\* ------------------------------------------------------- reward processing

\* A clip that tests the bounds the wrong way round.
clip_swapped(x, lo, hi) == Max2(Min2(x, lo), hi)

\* np.clip(x, lo, hi)
clip(x, lo, hi) == Min2(Max2(x, lo), hi)

\* np.around(x, decimals=0).astype(np.int64) of x quarters: the nearest
\* integer, a tie going to the even one.
around(x) ==
  LET k == x \div 4
      rem == x % 4
  IN CASE rem < 2 -> k
       [] rem > 2 -> k + 1
       [] OTHER   -> IF k % 2 = 0 THEN k ELSE k + 1

\* EnvProblem.is_reward_range_finite
is_reward_range_finite(range) == range[1] # -inf /\ range[2] # inf

\* EnvProblem.process_rewards on one reward.
process_rewards(range, reward) == around(clip(reward, range[1], range[2]))

\* EnvProblem.is_processed_rewards_discrete: process_rewards(0.0) is np.int64.
is_processed_rewards_discrete(range) == process_rewards(range, 0) \in Int

\* A num_rewards that counts the steps between the bounds, not the values.
num_rewards_off_by_one(range) ==
  IF ~is_reward_range_finite(range) THEN None
  ELSE Some(range[2] - range[1])

\* EnvProblem.num_rewards: None, or max - min + 1 (in quarters).
num_rewards(range) ==
  IF ~is_reward_range_finite(range) THEN None
  ELSE IF ~is_processed_rewards_discrete(range) THEN None
  ELSE Some(range[2] - range[1] + Float(1))

\* A process_observations a subclass defines in place of the identity: a
\* transform no raw observation is a fixed point of.
process_observations_override(observations) ==
  [k \in 1..Len(observations) |-> observations[k] + 2]

\* self.process_observations: the identity of EnvProblem, or the override of
\* the subclass the object belongs to.
process_observations(observations) ==
  IF overridden THEN process_observations_override(observations) ELSE observations

\* ------------------------------------------------------------ the last call

Returned(op, args, value) == [op |-> op, raised |-> FALSE, args |-> args, value |-> value]
Raised(op, args) == [op |-> op, raised |-> TRUE, args |-> args, value |-> None]

\* One environment method invoked by an API call.
EnvCall(index, method, arg) == [env |-> index, method |-> method, arg |-> arg]

\* ------------------------------------------------------ the environment pool

\* gym_utils.make_gym_env: a fresh environment, which has emitted nothing yet.
make_gym_env == None

\* The string forms str(space) the spaces are compared by: that of the base
\* environment's space, and a different one.
Spaces == {0, 1}

\* The observation and action space of one environment.
EnvSpaces == [observation_space : Spaces, action_space : Spaces]

\* The spaces of the base environment.
BaseSpaces == [observation_space |-> 0, action_space |-> 0]

\* EnvProblem._verify_same_spaces: TRUE when it returns, FALSE when it raises
\* ValueError.
_verify_same_spaces(obs_space, act_space, env_spaces) ==
  /\ \A i \in 1..Len(env_spaces) : env_spaces[i].observation_space = obs_space
  /\ \A i \in 1..Len(env_spaces) : env_spaces[i].action_space = act_space

\* EnvProblem.initialize_environments(batch_size); env_spaces[i] are the
\* spaces of the i-th environment made. The batch size and the pool are
\* assigned first, the spaces are then compared (first initialization: taken
\* from the first environment), and the trajectory store is created last.
initialize_environments(n, env_spaces) ==
  IF n < 1
    THEN /\ ret' = Raised("initialize_environments", <<n>>)
         /\ env_calls' = <<>>
         /\ UNCHANGED <<batch_size, envs, trajectories, observation_space, action_space>>
    ELSE
      LET new_observation_space ==
            IF observation_space # None THEN observation_space
            ELSE Some(env_spaces[1].observation_space)
          new_action_space ==
            IF action_space # None THEN action_space
            ELSE Some(env_spaces[1].action_space)
      IN
      /\ batch_size' = Some(n)
      /\ envs' = [i \in 1..n |-> make_gym_env]
      /\ env_calls' = <<>>
      /\ IF new_observation_space # Some(env_spaces[1].observation_space)
           THEN \* the assert of lines 271-272
                /\ ret' = Raised("initialize_environments", <<n>>)
                /\ UNCHANGED <<observation_space, action_space, trajectories>>
         ELSE IF new_action_space # Some(env_spaces[1].action_space)
           THEN \* the assert of line 282
                /\ observation_space' = new_observation_space
                /\ ret' = Raised("initialize_environments", <<n>>)
                /\ UNCHANGED <<action_space, trajectories>>
         ELSE IF ~_verify_same_spaces(new_observation_space[1], new_action_space[1],
                                      env_spaces)
           THEN /\ observation_space' = new_observation_space
                /\ action_space' = new_action_space
                /\ ret' = Raised("initialize_environments", <<n>>)
                /\ UNCHANGED trajectories
         ELSE /\ observation_space' = new_observation_space
              /\ action_space' = new_action_space
              /\ trajectories' = Some(BatchTrajectory(n))
              /\ ret' = Returned("initialize_environments", <<n>>, None)

\* EnvProblem.assert_common_preconditions
assert_common_preconditions(es) == es # <<>>

\* The last position of index in indices (a later reset of the same
\* environment is the one whose observation stays).
LastAt(indices, index) ==
  CHOOSE k \in 1..Len(indices) :
    /\ indices[k] = index
    /\ \A m \in (k + 1)..Len(indices) : indices[m] # index

\* EnvProblem._reset(indices): the environments after env.reset() of each
\* index; observations[k] is what the k-th reset returns.
_reset(es, indices, observations) ==
  [i \in 1..Len(es) |->
     IF \E k \in 1..Len(indices) : indices[k] = i - 1
       THEN Some(observations[LastAt(indices, i - 1)])
       ELSE es[i]]

\* A reset(None) that misses the last slot.
reset_indices_short(indices, n) ==
  IF indices = None THEN Range0(n - 1) ELSE indices[1]

\* reset, lines 485-486: None stands for every slot of the trajectory store,
\* whose batch_size is n.
reset_indices(indices, n) ==
  IF indices = None THEN Range0(n) ELSE indices[1]

\* A reset that rebuilds the slot list: the slots it was not asked to reset
\* lose their trajectories.
reset_record_history_all(bt, indices, observations) ==
  LET r == BatchTrajectory_reset(bt, indices, observations) IN
  [r EXCEPT !.trajectories =
     [i \in 1..bt.batch_size |->
        IF \E k \in 1..Len(indices) : indices[k] = i - 1
          THEN r.trajectories[i] ELSE Trajectory]]

\* reset, line 498: record history.
reset_record_history(bt, indices, observations) ==
  BatchTrajectory_reset(bt, indices, observations)

\* EnvProblem.reset(indices). observations are the raw observations the
\* environments return, one per index reset.
reset(indices, observations) ==
  IF indices = None /\ trajectories = None
    THEN \* self.trajectories.batch_size on None
         /\ ret' = Raised("reset", <<indices>>)
         /\ env_calls' = <<>>
         /\ UNCHANGED <<envs, trajectories>>
    ELSE
      LET idx == reset_indices(indices,
                   IF trajectories = None THEN 0 ELSE trajectories[1].batch_size)
      IN
      IF Len(idx) = 0
        THEN /\ ret' = Returned("reset", <<indices>>, None)
             /\ env_calls' = <<>>
             /\ UNCHANGED <<envs, trajectories>>
      ELSE IF ~assert_common_preconditions(envs)
        THEN /\ ret' = Raised("reset", <<indices>>)
             /\ env_calls' = <<>>
             /\ UNCHANGED <<envs, trajectories>>
      ELSE /\ envs' = _reset(envs, idx, observations)
           /\ env_calls' = [k \in 1..Len(idx) |-> EnvCall(idx[k], "reset", None)]
           /\ IF trajectories = None
                THEN \* self.trajectories.reset on None, the environments reset
                     /\ ret' = Raised("reset", <<indices>>)
                     /\ UNCHANGED trajectories
                ELSE /\ trajectories' =
                          Some(reset_record_history(trajectories[1], idx, observations))
                     /\ ret' = Returned("reset", <<indices>>,
                                        Some(process_observations(observations)))

\* A _step that compares the lengths only after its loop over
\* zip(self._envs, actions).
_step_late_assert(es, actions, outs) ==
  LET n == Min2(Len(es), Len(actions)) IN
  IF ~assert_common_preconditions(es) \/ Len(actions) # Len(es)
    THEN [raised |-> TRUE,
          envs |-> [i \in 1..Len(es) |->
                      IF i <= n THEN Some(outs[i].observation) ELSE es[i]],
          env_calls |-> [i \in 1..n |-> EnvCall(i - 1, "step", Some(actions[i]))],
          observations |-> <<>>, rewards |-> <<>>, dones |-> <<>>, infos |-> <<>>]
    ELSE [raised |-> FALSE,
          envs |-> [i \in 1..Len(es) |-> Some(outs[i].observation)],
          env_calls |-> [i \in 1..Len(es) |-> EnvCall(i - 1, "step", Some(actions[i]))],
          observations |-> [i \in 1..Len(es) |-> outs[i].observation],
          rewards |-> [i \in 1..Len(es) |-> outs[i].reward],
          dones |-> [i \in 1..Len(es) |-> outs[i].done],
          infos |-> [i \in 1..Len(es) |-> outs[i].info]]

\* A _step that hands the action batch to the environments in reverse order.
_step_reversed_actions(es, actions, outs) ==
  IF ~assert_common_preconditions(es) \/ Len(actions) # Len(es)
    THEN [raised |-> TRUE, envs |-> es, env_calls |-> <<>>,
          observations |-> <<>>, rewards |-> <<>>, dones |-> <<>>, infos |-> <<>>]
    ELSE [raised |-> FALSE,
          envs |-> [i \in 1..Len(es) |-> Some(outs[i].observation)],
          env_calls |-> [i \in 1..Len(es) |->
                           EnvCall(i - 1, "step", Some(actions[Len(es) + 1 - i]))],
          observations |-> [i \in 1..Len(es) |-> outs[i].observation],
          rewards |-> [i \in 1..Len(es) |-> outs[i].reward],
          dones |-> [i \in 1..Len(es) |-> outs[i].done],
          infos |-> [i \in 1..Len(es) |-> outs[i].info]]

\* EnvProblem._step(actions): both assertions, then one env.step per
\* environment; outs[i] is what environment i returns.
_step(es, actions, outs) ==
  IF ~assert_common_preconditions(es) \/ Len(actions) # Len(es)
    THEN [raised |-> TRUE, envs |-> es, env_calls |-> <<>>,
          observations |-> <<>>, rewards |-> <<>>, dones |-> <<>>, infos |-> <<>>]
    ELSE [raised |-> FALSE,
          envs |-> [i \in 1..Len(es) |-> Some(outs[i].observation)],
          env_calls |-> [i \in 1..Len(es) |-> EnvCall(i - 1, "step", Some(actions[i]))],
          observations |-> [i \in 1..Len(es) |-> outs[i].observation],
          rewards |-> [i \in 1..Len(es) |-> outs[i].reward],
          dones |-> [i \in 1..Len(es) |-> outs[i].done],
          infos |-> [i \in 1..Len(es) |-> outs[i].info]]

\* A step that closes out a trajectory as soon as its slot reports done.
step_record_history_closing(bt, observations, raw_rewards, processed_rewards, dones, actions) ==
  LET r == BatchTrajectory_step(bt, observations, raw_rewards, processed_rewards,
                                dones, actions)
      finished(i) == is_active(r.trajectories[i]) /\ dones[i]
  IN [r EXCEPT
        !.completed_trajectories =
           @ \o SelectSeq([i \in 1..bt.batch_size |->
                             IF finished(i) THEN r.trajectories[i] ELSE Trajectory],
                          is_active),
        !.trajectories =
           [i \in 1..bt.batch_size |->
              IF finished(i) THEN Trajectory ELSE r.trajectories[i]]]

\* A step that records nothing for a slot whose trajectory already ended
\* with done.
step_record_history_skip_done(bt, observations, raw_rewards, processed_rewards, dones, actions) ==
  LET r == BatchTrajectory_step(bt, observations, raw_rewards, processed_rewards,
                                dones, actions)
      ended(i) == is_active(bt.trajectories[i]) /\ last_time_step(bt.trajectories[i]).done
  IN [r EXCEPT
        !.trajectories =
           [i \in 1..bt.batch_size |->
              IF ended(i) THEN bt.trajectories[i] ELSE r.trajectories[i]]]

\* step, lines 560-562: record history.
step_record_history(bt, observations, raw_rewards, processed_rewards, dones, actions) ==
  BatchTrajectory_step(bt, observations, raw_rewards, processed_rewards, dones, actions)

\* EnvProblem.step(actions)
step(actions, outs) ==
  LET s == _step(envs, actions, outs) IN
  /\ envs' = s.envs
  /\ env_calls' = s.env_calls
  /\ IF s.raised \/ trajectories = None
       THEN /\ ret' = Raised("step", <<actions>>)
            /\ UNCHANGED trajectories
       ELSE
         LET raw_rewards == s.rewards
             processed_rewards ==
               [i \in 1..Len(raw_rewards) |-> process_rewards(reward_range, raw_rewards[i])]
             processed_observations == process_observations(s.observations)
         IN /\ trajectories' =
                 Some(step_record_history(trajectories[1], processed_observations,
                        raw_rewards, processed_rewards, s.dones, actions))
            /\ ret' = Returned("step", <<actions>>,
                        Some([observations |-> processed_observations,
                              rewards |-> processed_rewards,
                              dones |-> s.dones,
                              infos |-> s.infos]))

\* --------------------------------------------------------------- the export

\* gym_spaces_utils.gym_space_encode on a Discrete space: a one-element list.
gym_space_encode(value) == <<value>>

\* num_shards and the files_list of generate_data: every split's shard files.
num_shards == TrainShards + EvalShards

\* The placeholder action_space.sample() returns for the record at position
\* pos of a file.
sample(samples, pos) == samples[(pos % Len(samples)) + 1]

\* _generate_time_steps, lines 670-716: the record of the time-step at index.
time_step_record(index, time_step, sampled) ==
  LET raw_reward == IF ~Truthy(time_step.raw_reward)
                      THEN 0 ELSE time_step.raw_reward[1]
      processed_reward == IF ~Truthy(time_step.processed_reward)
                            THEN 0 ELSE time_step.processed_reward[1]
      action == IF Truthy(time_step.action)
                  THEN gym_space_encode(time_step.action[1])
                  ELSE <<sampled>>
  IN [timestep |-> <<index>>,
      action |-> action,
      raw_reward |-> <<raw_reward>>,
      reward |-> <<processed_reward>>,
      done |-> <<IF time_step.done THEN 1 ELSE 0>>,
      observation |-> gym_space_encode(time_step.observation)]

\* A skip test that lets a trajectory of one time-step through.
skip_trajectory_empty_only(t) == num_time_steps(t) < 1

\* _generate_time_steps, lines 667-668: a trajectory of one time-step (or
\* none) is skipped.
skip_trajectory(t) == num_time_steps(t) <= 1

\* _generate_time_steps, line 670: enumerate(time_steps) starts at 0.
enumerate_index(k) == k - 1

\* The records of one trajectory, the first of them at position pos.
trajectory_records(t, samples, pos) ==
  IF skip_trajectory(t) THEN <<>>
  ELSE [k \in 1..Len(t) |->
          time_step_record(enumerate_index(k), t[k], sample(samples, pos + k - 1))]

\* EnvProblem._generate_time_steps(trajectory_list), from its k-th trajectory.
RECURSIVE _generate_time_steps_from(_, _, _, _)
_generate_time_steps_from(trajectory_list, samples, k, pos) ==
  IF k > Len(trajectory_list) THEN <<>>
  ELSE LET recs == trajectory_records(trajectory_list[k], samples, pos)
       IN recs \o _generate_time_steps_from(trajectory_list, samples, k + 1,
                                            pos + Len(recs))

_generate_time_steps(trajectory_list, samples) ==
  _generate_time_steps_from(trajectory_list, samples, 1, 0)

\* The indices i, i + step, i + 2 step, ... below n: those of s[i::step].
slice_indices(n, i, stride) ==
  [k \in 1..(IF i >= n THEN 0 ELSE ((n - 1 - i) \div stride) + 1) |->
     i + (k - 1) * stride]

\* generate_data, line 745: files_list[:num_completed_trajectories].
files_used(num_completed_trajectories, shards) ==
  Min2(num_completed_trajectories, shards)

\* A slice whose stride is one more than the number of shard files.
trajectories_to_write_wide(num_completed_trajectories, i, shards) ==
  slice_indices(num_completed_trajectories, i, shards + 1)

\* generate_data, lines 750-751: completed_trajectories[i::num_shards].
trajectories_to_write(num_completed_trajectories, i, shards) ==
  slice_indices(num_completed_trajectories, i, shards)

\* A generate_data that exports without closing the trajectories in progress.
generate_data_complete_skipped(bt) == bt

\* generate_data, line 733.
generate_data_complete(bt) == complete_all_trajectories(bt)

\* A shard file as generate_files leaves it: the list indices of the
\* completed trajectories handed to it and the records written.
ShardFile(completed, handed, samples) ==
  [handed |-> handed,
   records |-> _generate_time_steps(
                 [k \in 1..Len(handed) |-> At(completed, handed[k])], samples)]

\* EnvProblem.generate_data
generate_data(samples) ==
  IF trajectories = None
    THEN /\ ret' = Raised("generate_data", <<>>)
         /\ UNCHANGED <<trajectories, files>>
    ELSE
      LET bt == generate_data_complete(trajectories[1])
          completed == bt.completed_trajectories
          n == Len(completed)
      IN /\ trajectories' = Some(bt)
         /\ files' =
              [f \in 1..num_shards |->
                 IF f <= files_used(n, num_shards)
                   THEN Some(ShardFile(completed,
                               trajectories_to_write(n, f - 1, num_shards), samples))
                   ELSE files[f]]
         /\ ret' = Returned("generate_data", <<>>, None)

\* ------------------------------------------------------------ specifications

Init ==
  /\ overridden = FALSE
  /\ reward_range \in MainRewardRanges
  /\ observation_space = None
  /\ action_space = None
  /\ batch_size = None
  /\ envs = <<>>
  /\ trajectories = None
  /\ files = [f \in 1..num_shards |-> None]
  /\ ret = Returned("__init__", <<>>, None)
  /\ env_calls = <<>>
  /\ work = 0

\* Action batches: every length up to the largest pool size.
ActionBatches == UNION { [1..n -> ActionSpace] : n \in 0..MaxBatch }

\* Index arrays reset is called with: None, or distinct slot indices in
\* increasing order (np.arange, done_indices).
IndexArrays(n) ==
  { None } \cup
  { Some(idx) : idx \in
      { s \in UNION { [1..m -> 0..(n - 1)] : m \in 0..n } :
          \A a, b \in 1..Len(s) : a < b => s[a] < s[b] } }

PoolSize == Len(envs)

\* What a call costs of the run's budget: one unit, and one per environment
\* method it invokes.
Cost(env_invocations) == 1 + env_invocations

InitializeEnvironments ==
  /\ work + Cost(0) <= MaxWork
  /\ \E n \in 0..MaxBatch : initialize_environments(n, [i \in 1..n |-> BaseSpaces])
  /\ work' = work + Cost(0)
  /\ UNCHANGED <<overridden, reward_range, files>>

Reset ==
  \E indices \in IndexArrays(PoolSize) :
    LET n == IF indices = None
               THEN (IF trajectories = None THEN 0 ELSE trajectories[1].batch_size)
               ELSE Len(indices[1])
    IN /\ work + Cost(n) <= MaxWork
       /\ \E observations \in [1..n -> Obs] : reset(indices, observations)
       /\ work' = work + Cost(n)
       /\ UNCHANGED <<overridden, observation_space, action_space, reward_range, batch_size, files>>

Step ==
  /\ work + Cost(PoolSize) <= MaxWork
  /\ \E actions \in ActionBatches :
       \E outs \in [1..PoolSize -> Outcomes] : step(actions, outs)
  /\ work' = work + Cost(PoolSize)
  /\ UNCHANGED <<overridden, observation_space, action_space, reward_range, batch_size, files>>

GenerateData ==
  /\ work + Cost(0) <= MaxWork
  /\ \E samples \in [1..2 -> ActionSpace] : generate_data(samples)
  /\ env_calls' = <<>>
  /\ work' = work + Cost(0)
  /\ UNCHANGED <<overridden, observation_space, action_space, reward_range, batch_size, envs>>

Next == InitializeEnvironments \/ Reset \/ Step \/ GenerateData

Spec == Init /\ [][Next]_vars

\* ------------------------------------------- the spaces specification

\* The same object and calls, with environments whose spaces need not agree
\* with each other or with those of an earlier initialization. A failed
\* initialization is followed only by another initialization.
InitializeFailed == ret.op = "initialize_environments" /\ ret.raised

SpacesInitialize ==
  /\ work + Cost(0) <= MaxWork
  /\ \E n \in 0..MaxBatch :
       \E env_spaces \in [1..n -> EnvSpaces] : initialize_environments(n, env_spaces)
  /\ work' = work + Cost(0)
  /\ UNCHANGED <<overridden, reward_range, files>>

SpacesReset == ~InitializeFailed /\ Reset

SpacesStep == ~InitializeFailed /\ Step

SpacesGenerateData == ~InitializeFailed /\ GenerateData

NextSpaces == SpacesInitialize \/ SpacesReset \/ SpacesStep \/ SpacesGenerateData

SpecSpaces == Init /\ [][NextSpaces]_vars

\* ------------------------------------------- the subclass specification

\* An object of a subclass of EnvProblem that overrides process_observations,
\* driven through the same calls.
InitSubclass ==
  /\ overridden = TRUE
  /\ reward_range \in MainRewardRanges
  /\ observation_space = None
  /\ action_space = None
  /\ batch_size = None
  /\ envs = <<>>
  /\ trajectories = None
  /\ files = [f \in 1..num_shards |-> None]
  /\ ret = Returned("__init__", <<>>, None)
  /\ env_calls = <<>>
  /\ work = 0

SpecSubclass == InitSubclass /\ [][Next]_vars

\* ------------------------------------------- the reward specification

\* An EnvProblem constructed with any reward range, whose reward processing
\* is then called directly.
InitRewards ==
  /\ overridden = FALSE
  /\ reward_range \in RewardRanges
  /\ observation_space = None
  /\ action_space = None
  /\ batch_size = None
  /\ envs = <<>>
  /\ trajectories = None
  /\ files = [f \in 1..num_shards |-> None]
  /\ ret = Returned("__init__", <<>>, None)
  /\ env_calls = <<>>
  /\ work = 0

ProcessRewards ==
  /\ \E reward \in RawRewards :
       ret' = Returned("process_rewards", <<reward>>,
                       Some(process_rewards(reward_range, reward)))
  /\ UNCHANGED <<overridden, observation_space, action_space, reward_range, batch_size, envs, trajectories, files, env_calls, work>>

NumRewards ==
  /\ ret' = Returned("num_rewards", <<>>, num_rewards(reward_range))
  /\ UNCHANGED <<overridden, observation_space, action_space, reward_range, batch_size, envs, trajectories, files, env_calls, work>>

NextRewards == ProcessRewards \/ NumRewards

SpecRewards == InitRewards /\ [][NextRewards]_vars

\* ------------------------------------------- the sharding specification

\* One environment driven through scripted episodes of one or two time-steps
\* until the completed list is longer than the list of shard files, then
\* exported once.
InitShards ==
  /\ overridden = FALSE
  /\ reward_range = <<-inf, inf>>
  /\ observation_space = None
  /\ action_space = None
  /\ batch_size = None
  /\ envs = <<>>
  /\ trajectories = None
  /\ files = [f \in 1..num_shards |-> None]
  /\ ret = Returned("__init__", <<>>, None)
  /\ env_calls = <<>>
  /\ work = 0

Exported == ret.op = "generate_data"

ShardsInitialize ==
  /\ envs = <<>>
  /\ initialize_environments(1, <<BaseSpaces>>)
  /\ UNCHANGED <<overridden, reward_range, files, work>>

ShardsReset ==
  /\ envs # <<>> /\ ~Exported
  /\ Len(trajectories[1].completed_trajectories) < MaxCompleted
  /\ reset(None, <<0>>)
  /\ UNCHANGED <<overridden, observation_space, action_space, reward_range, batch_size, files, work>>

ShardsStep ==
  /\ envs # <<>> /\ ~Exported
  /\ num_time_steps(trajectories[1].trajectories[1]) = 1
  /\ step(<<1>>, <<[observation |-> 1, reward |-> 5, done |-> FALSE, info |-> 0]>>)
  /\ UNCHANGED <<overridden, observation_space, action_space, reward_range, batch_size, files, work>>

ShardsGenerateData ==
  /\ envs # <<>> /\ ~Exported
  /\ generate_data(<<0, 1>>)
  /\ env_calls' = <<>>
  /\ UNCHANGED <<overridden, observation_space, action_space, reward_range, batch_size, envs, work>>

NextShards == ShardsInitialize \/ ShardsReset \/ ShardsStep \/ ShardsGenerateData

SpecShards == InitShards /\ [][NextShards]_vars

\* ------------------------------------------------------------------ claims

\* The trajectory store, its slots and its completed list.
Store == trajectories[1]
Slots == Store.trajectories
Completed == Store.completed_trajectories

\* The last call was op and returned.
Did(op) == ret.op = op /\ ~ret.raised

\* The slot indices a reset call covers: every slot for None.
Covered(indices, n) == IF indices = None THEN Range0(n) ELSE indices[1]

InSeq(x, s) == \E k \in 1..Len(s) : s[k] = x

\* The trajectories the slots at idx hold, in idx order, active ones only.
HeldAt(slots, idx) ==
  SelectSeq([k \in 1..Len(idx) |-> At(slots, idx[k])], is_active)

\* C1: completion is reset-driven. A step that returns never changes the
\* completed list, and a slot it reports done still holds its trajectory, the
\* final (done) time-step last; among step and reset calls the trajectory is
\* appended to the completed list by the reset whose indices include the slot,
\* and by no reset that leaves the slot out.
C1_CompletionIsResetDriven ==
  [][ /\ Did("step")' =>
          /\ Completed' = Completed
          /\ \A i \in 1..PoolSize :
               (is_active(Slots[i]) /\ ret'.value[1].dones[i]) =>
                  /\ num_time_steps(Slots'[i]) = num_time_steps(Slots[i]) + 1
                  /\ last_time_step(Slots'[i]).done
                  /\ \A k \in 1..Len(Slots[i]) :
                       Slots'[i][k].observation = Slots[i][k].observation
      /\ (Did("reset")' /\ ret'.value # None) =>
          LET idx == Covered(ret'.args[1], PoolSize) IN
          /\ Completed' = Completed \o HeldAt(Slots, idx)
          /\ \A i \in 1..PoolSize : ~InSeq(i - 1, idx) => Slots'[i] = Slots[i]
    ]_vars

\* A reset has just moved a trajectory whose last time-step is done.
C1_Witness ==
  /\ trajectories # None
  /\ Did("reset")
  /\ \E k \in 1..Len(Completed) :
       last_time_step(Completed[k]).done /\ num_time_steps(Completed[k]) >= 2

\* C4: generate_data closes out every trajectory still in progress exactly
\* once, done or not: the completed list grows by exactly the active slot
\* trajectories, in slot order, and no slot holds an active trajectory
\* afterwards (so a repeated call adds nothing).
C4_CompleteAllExactlyOnce ==
  [][ Did("generate_data")' =>
        /\ Completed' = Completed \o SelectSeq(Slots, is_active)
        /\ \A i \in 1..Len(Slots') : ~is_active(Slots'[i])
        /\ Len(Slots') = Len(Slots)
    ]_vars

\* An export has force-closed a trajectory of several time-steps that was
\* not done.
C4_Witness ==
  /\ trajectories # None
  /\ Did("generate_data")
  /\ \E k \in 1..Len(Completed) :
       num_time_steps(Completed[k]) >= 2 /\ ~last_time_step(Completed[k]).done

\* C6: a reset that resets some slots leaves each of them with a fresh
\* trajectory of one time-step, the observation its environment's reset
\* returned; the trajectories they held are appended to the completed list
\* (every one of more than one time-step among them); the environments and
\* trajectories of the other slots are untouched.
C6_ResetFrame ==
  [][ (Did("reset")' /\ ret'.value # None) =>
        LET idx == Covered(ret'.args[1], PoolSize)
            added == SubSeq(Completed', Len(Completed) + 1, Len(Completed'))
        IN
        /\ \A i \in 1..PoolSize :
             IF InSeq(i - 1, idx)
               THEN /\ envs'[i] # None
                    /\ Slots'[i] = <<TimeStep(envs'[i][1], None, None, None, FALSE)>>
                    /\ Cardinality({k \in 1..Len(env_calls') :
                                      env_calls'[k] = EnvCall(i - 1, "reset", None)}) = 1
                    /\ num_time_steps(Slots[i]) > 1 => InSeq(Slots[i], added)
               ELSE /\ envs'[i] = envs[i]
                    /\ Slots'[i] = Slots[i]
                    /\ \A k \in 1..Len(env_calls') : env_calls'[k].env # i - 1
        /\ SubSeq(Completed', 1, Len(Completed)) = Completed
        /\ \A k \in 1..Len(added) :
             \E m \in 1..Len(idx) : added[k] = At(Slots, idx[m])
    ]_vars

\* One slot of two has just been reset while the other keeps a trajectory of
\* several time-steps, and the trajectory closed out was non-trivial.
C6_Witness ==
  /\ trajectories # None
  /\ Did("reset")
  /\ PoolSize = 2
  /\ ret.args[1] # None
  /\ Len(ret.args[1][1]) = 1
  /\ \E i \in 1..2 : num_time_steps(Slots[i]) >= 2
  /\ Len(Completed) >= 1
  /\ num_time_steps(Completed[Len(Completed)]) >= 2

\* C9: a step before the environments exist, or with an action batch whose
\* length is not the pool size, raises, and when step raises no environment
\* has been stepped and nothing has been recorded: environments and
\* trajectory store are as before the call.
C9_StepFailsClean ==
  [][ ret'.op = "step" =>
        /\ (envs = <<>> \/ Len(ret'.args[1]) # Len(envs)) => ret'.raised
        /\ ret'.raised =>
             /\ envs' = envs
             /\ trajectories' = trajectories
             /\ env_calls' = <<>>
    ]_vars

\* A step with one action for a pool of two, with trajectories in progress,
\* has raised.
C9_Witness ==
  /\ ret.op = "step"
  /\ ret.raised
  /\ PoolSize = 2
  /\ Len(ret.args[1]) = 1
  /\ trajectories # None
  /\ \A i \in 1..2 : is_active(Slots[i])

\* C10: reset(None) on an initialized pool resets every environment exactly
\* once, returns one observation per slot, and leaves every slot with an
\* active trajectory of exactly one time-step.
C10_ResetAll ==
  [][ (ret'.op = "reset" /\ ret'.args[1] = None /\ ~ret'.raised) =>
        /\ batch_size # None
        /\ PoolSize = batch_size[1]
        /\ Len(env_calls') = PoolSize
        /\ \A i \in 1..PoolSize :
             Cardinality({k \in 1..Len(env_calls') :
                            env_calls'[k] = EnvCall(i - 1, "reset", None)}) = 1
        /\ ret'.value # None
        /\ Len(ret'.value[1]) = batch_size[1]
        /\ Len(Slots') = batch_size[1]
        /\ \A i \in 1..PoolSize :
             is_active(Slots'[i]) /\ num_time_steps(Slots'[i]) = 1
    ]_vars

\* reset(None) has just returned on a pool of two whose slots both held a
\* trajectory, which the reset closed out.
C10_Witness ==
  /\ trajectories # None
  /\ Did("reset")
  /\ ret.args[1] = None
  /\ PoolSize = 2
  /\ Len(ret.value[1]) = 2
  /\ Len(Completed) >= 2
  /\ \A i \in 1..2 : num_time_steps(Slots[i]) = 1

\* A float (in quarters) that is a whole number.
IsIntegral(x) == x % 4 = 0

\* The values process_rewards returns over the raw rewards, for a range.
ProcessedValues(range) == { process_rewards(range, r) : r \in RawRewards }

\* C7 as stated: for every finite range and every raw reward the result is
\* min below min, max above max, and always within [min, max].
C7_ClipsToAnyFiniteRange ==
  (Did("process_rewards") /\ is_reward_range_finite(reward_range)) =>
    LET r == ret.args[1]
        v == Float(ret.value[1])
    IN /\ ret.value[1] \in Int
       /\ r < reward_range[1] => v = reward_range[1]
       /\ r > reward_range[2] => v = reward_range[2]
       /\ reward_range[1] <= v /\ v <= reward_range[2]

\* C7, amended: the same for every finite range whose bounds are whole
\* numbers. (A bound that is not a whole number is rounded with the reward:
\* the result is then the rounded bound, which need not lie in the range.)
C7_ClipsToIntegralRange ==
  (/\ Did("process_rewards")
   /\ is_reward_range_finite(reward_range)
   /\ IsIntegral(reward_range[1]) /\ IsIntegral(reward_range[2])) =>
    LET r == ret.args[1]
        v == Float(ret.value[1])
    IN /\ ret.value[1] \in Int
       /\ r < reward_range[1] => v = reward_range[1]
       /\ r > reward_range[2] => v = reward_range[2]
       /\ reward_range[1] <= v /\ v <= reward_range[2]

\* A reward above the maximum of a range of whole-number bounds has been
\* clipped to it.
C7_Witness ==
  /\ Did("process_rewards")
  /\ is_reward_range_finite(reward_range)
  /\ IsIntegral(reward_range[1]) /\ IsIntegral(reward_range[2])
  /\ reward_range[1] < reward_range[2]
  /\ ret.args[1] > reward_range[2]
  /\ Float(ret.value[1]) = reward_range[2]

\* C8 as stated: None when a bound is infinite; otherwise max - min + 1,
\* which is the number of distinct values process_rewards returns.
C8_NumRewardsCountsAnyRange ==
  Did("num_rewards") =>
    IF reward_range[1] = -inf \/ reward_range[2] = inf
      THEN ret.value = None
      ELSE /\ ret.value = Some(reward_range[2] - reward_range[1] + Float(1))
           /\ ret.value[1] = Float(Cardinality(ProcessedValues(reward_range)))

\* C8, amended: None when a bound is infinite; otherwise max - min + 1, and
\* when both bounds are whole numbers that is the number of distinct values
\* process_rewards returns.
C8_NumRewardsCountsIntegralRange ==
  Did("num_rewards") =>
    IF reward_range[1] = -inf \/ reward_range[2] = inf
      THEN ret.value = None
      ELSE /\ ret.value = Some(reward_range[2] - reward_range[1] + Float(1))
           /\ (IsIntegral(reward_range[1]) /\ IsIntegral(reward_range[2])) =>
                ret.value[1] = Float(Cardinality(ProcessedValues(reward_range)))

\* num_rewards has returned a count for a range of several whole rewards.
C8_Witness ==
  /\ Did("num_rewards")
  /\ is_reward_range_finite(reward_range)
  /\ IsIntegral(reward_range[1]) /\ IsIntegral(reward_range[2])
  /\ reward_range[2] - reward_range[1] >= Float(2)
  /\ ret.value = Some(Float(Cardinality(ProcessedValues(reward_range))))

\* The shard files the export that has just returned wrote, and the
\* trajectories it handed to file f.
WrittenNow == 1..Min2(Len(Completed), num_shards)
HandedTo(f) ==
  [k \in 1..Len(files[f][1].handed) |-> At(Completed, files[f][1].handed[k])]

\* The time-steps an export of list is to emit, in order, each with its
\* ordinal in its trajectory: those of the trajectories of two or more
\* time-steps.
RECURSIVE ExportedTimeSteps(_)
ExportedTimeSteps(list) ==
  IF list = <<>> THEN <<>>
  ELSE LET t == Head(list) IN
       (IF Len(t) >= 2
          THEN [k \in 1..Len(t) |-> [ordinal |-> k - 1, time_step |-> t[k]]]
          ELSE <<>>)
       \o ExportedTimeSteps(Tail(list))

\* C2 as stated: the records of an export carry, in order, the action, the
\* processed reward and the done flag recorded at each time-step, whatever
\* the action; only a time-step without an action gets a sampled one.
C2_ExportRoundTrip ==
  Did("generate_data") =>
    \A f \in WrittenNow :
      LET e == ExportedTimeSteps(HandedTo(f))
          r == files[f][1].records
      IN /\ Len(r) = Len(e)
         /\ \A p \in 1..Len(e) :
              LET ts == e[p].time_step IN
              /\ ts.action # None => r[p].action = <<ts.action[1]>>
              /\ ts.processed_reward # None => r[p].reward = <<ts.processed_reward[1]>>
              /\ r[p].done = <<IF ts.done THEN 1 ELSE 0>>

\* C2, for the actions the export does keep: the same with every recorded
\* action other than 0 (`if time_step.action` takes action 0 for absent).
C2_ExportRoundTripNonZeroActions ==
  Did("generate_data") =>
    \A f \in WrittenNow :
      LET e == ExportedTimeSteps(HandedTo(f))
          r == files[f][1].records
      IN /\ Len(r) = Len(e)
         /\ \A p \in 1..Len(e) :
              LET ts == e[p].time_step IN
              /\ Truthy(ts.action) => r[p].action = <<ts.action[1]>>
              /\ ts.processed_reward # None => r[p].reward = <<ts.processed_reward[1]>>
              /\ r[p].done = <<IF ts.done THEN 1 ELSE 0>>

\* C3: an export emits nothing for a trajectory of one time-step and, for a
\* trajectory of n >= 2 time-steps, n records in order whose timestep fields
\* are 0 .. n-1 (and whose observations are the time-steps').
C3_ExportedRecordCount ==
  Did("generate_data") =>
    \A f \in WrittenNow :
      /\ files[f] # None
      /\ LET e == ExportedTimeSteps(HandedTo(f))
             r == files[f][1].records
         IN /\ Len(r) = Len(e)
            /\ \A p \in 1..Len(r) :
                 /\ r[p].timestep = <<e[p].ordinal>>
                 /\ r[p].observation = <<e[p].time_step.observation>>

\* An export has written nothing for a trajectory of one time-step and one
\* record per time-step for a longer one.
C3_Witness ==
  /\ trajectories # None
  /\ Did("generate_data")
  /\ Len(Completed) <= num_shards
  /\ \E j, k \in 1..Len(Completed) :
       /\ num_time_steps(Completed[j]) = 1
       /\ files[j][1].handed = <<j - 1>>
       /\ files[j][1].records = <<>>
       /\ num_time_steps(Completed[k]) >= 2
       /\ files[k][1].handed = <<k - 1>>
       /\ Len(files[k][1].records) = num_time_steps(Completed[k])

\* C5: an export hands the completed trajectory at list index j to exactly
\* one shard file, the one at position j modulo the number of shard files,
\* and hands it there once.
C5_RoundRobinPartition ==
  Did("generate_data") =>
    \A j \in 0..(Len(Completed) - 1) :
      LET holders == { f \in 1..num_shards :
                         files[f] # None /\ InSeq(j, files[f][1].handed) }
      IN /\ holders = { (j % num_shards) + 1 }
         /\ \A f \in holders :
              Cardinality({ k \in 1..Len(files[f][1].handed) :
                              files[f][1].handed[k] = j }) = 1

\* An export of more completed trajectories than there are shard files.
C5_Witness ==
  /\ trajectories # None
  /\ Did("generate_data")
  /\ Len(Completed) > num_shards
  /\ \A f \in 1..num_shards : files[f] # None

\* C11: a step whose action batch is as long as the pool returns; it steps
\* each environment exactly once, in pool order, environment i with
\* actions[i]; the observations, processed rewards, done flags and infos it
\* returns are each as long as the pool, and entry i of all four is what
\* environment i returned (its reward processed).
C11_StepIsIndexAligned ==
  [][ (ret'.op = "step" /\ envs # <<>> /\ Len(ret'.args[1]) = Len(envs)) =>
        LET actions == ret'.args[1]
            n == Len(envs)
        IN
        /\ ~ret'.raised
        /\ Len(envs') = n
        /\ env_calls' = [i \in 1..n |-> EnvCall(i - 1, "step", Some(actions[i]))]
        /\ Len(ret'.value[1].observations) = n
        /\ Len(ret'.value[1].rewards) = n
        /\ Len(ret'.value[1].dones) = n
        /\ Len(ret'.value[1].infos) = n
        /\ \A i \in 1..n :
             \E o \in Outcomes :
               /\ envs'[i] = Some(o.observation)
               /\ ret'.value[1].observations[i] =
                    process_observations(<<o.observation>>)[1]
               /\ ret'.value[1].rewards[i] = process_rewards(reward_range, o.reward)
               /\ ret'.value[1].dones[i] = o.done
               /\ ret'.value[1].infos[i] = o.info
    ]_vars

\* A pool of two has been stepped with two different actions, and its two
\* environments returned different observations, rewards, done flags and
\* infos.
C11_Witness ==
  /\ Did("step")
  /\ PoolSize = 2
  /\ ret.args[1][1] # ret.args[1][2]
  /\ env_calls[1].arg # env_calls[2].arg
  /\ ret.value[1].observations[1] # ret.value[1].observations[2]
  /\ ret.value[1].rewards[1] # ret.value[1].rewards[2]
  /\ ret.value[1].dones[1] # ret.value[1].dones[2]
  /\ ret.value[1].infos[1] # ret.value[1].infos[2]

\* C12: every observation a call records is process_observations of the raw
\* observation the environment returned, and is the value the call returned:
\* the initial observation of each slot a reset covers, and the observation
\* of the time-step a step appends to each slot in progress.
C12_RecordedObservationsAreProcessed ==
  /\ (Did("reset") /\ ret.value # None) =>
        LET idx == Covered(ret.args[1], PoolSize) IN
        \A k \in 1..Len(idx) :
          LET recorded == At(Slots, idx[k])[1].observation
              raw == At(envs, idx[k])[1]
          IN /\ recorded = process_observations(<<raw>>)[1]
             /\ recorded = ret.value[1][k]
  /\ Did("step") =>
        \A i \in 1..PoolSize :
          is_active(Slots[i]) =>
            LET recorded == last_time_step(Slots[i]).observation
                raw == envs[i][1]
            IN /\ recorded = process_observations(<<raw>>)[1]
               /\ recorded = ret.value[1].observations[i]

\* The step half of C12 alone: the observation a step appends to a slot in
\* progress is the processed one, which the step returned.
C12_StepRecordsProcessed ==
  Did("step") =>
    \A i \in 1..PoolSize :
      is_active(Slots[i]) =>
        /\ last_time_step(Slots[i]).observation =
             process_observations(<<envs[i][1]>>)[1]
        /\ last_time_step(Slots[i]).observation = ret.value[1].observations[i]

\* The reset of a subclass object records the raw observation while it
\* returns the processed one.
C12_ResetRecordsRaw ==
  (Did("reset") /\ ret.value # None) =>
    LET idx == Covered(ret.args[1], PoolSize) IN
    \A k \in 1..Len(idx) :
      /\ At(Slots, idx[k])[1].observation = At(envs, idx[k])[1]
      /\ ret.value[1][k] = process_observations(<<At(envs, idx[k])[1]>>)[1]

\* C13: once every slot has been reset, the number of time-steps of a slot's
\* trajectory in progress is 1 plus the number of steps since the slot was
\* last reset. Stated call by call: with every slot in progress, a step that
\* returns makes the trajectory of every slot exactly one time-step longer
\* (whether or not the slot had reported done), and a reset leaves the slots
\* it covers with exactly one time-step and the others with as many as before;
\* so every slot stays in progress.
C13_StepAppendsOnePerSlot ==
  [][ (trajectories # None /\ \A i \in 1..PoolSize : is_active(Slots[i])) =>
        /\ Did("step")' =>
              \A i \in 1..PoolSize :
                num_time_steps(Slots'[i]) = num_time_steps(Slots[i]) + 1
        /\ (Did("reset")' /\ ret'.value # None) =>
              \A i \in 1..PoolSize :
                num_time_steps(Slots'[i]) =
                  IF InSeq(i - 1, Covered(ret'.args[1], PoolSize))
                    THEN 1 ELSE num_time_steps(Slots[i])
    ]_vars

\* A slot reset once and stepped twice since holds three time-steps, the
\* second of them done.
C13_Witness ==
  /\ trajectories # None
  /\ Did("step")
  /\ PoolSize = 1
  /\ num_time_steps(Slots[1]) = 3
  /\ Slots[1][2].done
  /\ Len(Completed) = 0

\* C14: pool-size consistency. Once environments exist, the reported
\* batch_size, the number of environments in the pool and the number of slots
\* of the trajectory store are all equal.
C14_PoolSizeConsistency ==
  envs # <<>> =>
    /\ batch_size = Some(Len(envs))
    /\ trajectories # None
    /\ Store.batch_size = Len(envs)
    /\ Len(Slots) = Len(envs)

\* A re-initialization with another batch size has failed on a space check
\* and left a trajectory store whose slots do not match the pool.
C14_StaleStore ==
  /\ InitializeFailed
  /\ trajectories # None
  /\ Len(Slots) # Len(envs)
  /\ batch_size = Some(Len(envs))

====
